---------------------------- MODULE Spec2Model ----------------------------
(***************************************************************************)
(* Model of the office-mood pipeline of taimoor-ks/Hackathon-2025:         *)
(* the /api/mood route (src/app/api/mood/route.ts) and its later variant   *)
(* (src/unnamed/part_000, lines 675-1100).  The two files hold the same    *)
(* pipeline with different recency thresholds, a different normaliser and  *)
(* a different parse step; the variable `variant` says which one runs.     *)
(*                                                                         *)
(* Texts are sequences of one-character strings, so that the regular       *)
(* expressions of cleanSlackText act on characters as they do in the code. *)
(* Error messages and identifiers are TLA+ strings.                        *)
(***************************************************************************)
EXTENDS Integers, Sequences, FiniteSets, TLC

VARIABLES
    variant,        \* "route" (route.ts) or "part" (part_000): which file runs
    cleanIn,        \* cleanSlackText: the text handed to the normaliser
    cleanOut,       \* cleanSlackText: its result, Pending before the call
    cleanTwice,     \* cleanSlackText applied to its own result
    world,          \* what the collaborators may answer
    env,            \* process.env: [channels |-> TRUE iff SLACK_CHANNEL_IDS is set]
    clock,          \* Date.now(), in milliseconds
    pc,             \* where GET stands: idle, fetching, analyzing, translating, done
    chan,           \* per channel: the state of its fetchSlackMessagesFromChannel call
    joined,         \* the Promise.all over the channel calls: pending, fulfilled, rejected
    now,            \* fetchSlackFromMultipleChannels: its local `now`, in milliseconds
    msgs,           \* GET: the weighted sequence the aggregator returned
    oracle,         \* analyzeWithAI: the reply of the completion API, NoReply before it
    calls,          \* the convertSlackEmojiToUnicode calls of this request, one per top_emojis entry
    emojiCache,     \* module variable emojiCache: Null or a map from code to string
    emojiCacheTime, \* module variable emojiCacheTime, in milliseconds
    response,       \* what GET returned: NoResponse, or [status, body]
    catches,        \* how many catch clauses ran for this request
    failures,       \* the failures that occurred in this request
    sent,           \* the HTTP requests this request has sent, per endpoint
    mounted,        \* Home: whether the effect that runs on mount has run
    data,           \* Home: the state `data`, NoData or the mood payload displayed
    loading,        \* Home: the state `loading`
    error,          \* Home: the state `error`, Null or a message
    isRefreshing,   \* Home: the state `isRefreshing`
    inFlight,       \* the fetchMood calls awaiting /api/mood, each with the `data` it closed over
    confetti,       \* how often the last completed fetchMood called triggerConfetti
    rain            \* how often the last completed fetchMood called triggerEmojiRain

cleanVars == <<cleanIn, cleanOut, cleanTwice>>
cacheVars == <<emojiCache, emojiCacheTime>>
reqVars == <<pc, chan, joined, now, msgs, oracle, calls, response, catches, failures, sent>>
fixedVars == <<variant, world, env, clock>>
homeVars == <<mounted, data, loading, error, isRefreshing, inFlight, confetti, rain>>

vars == <<fixedVars, cleanVars, reqVars, cacheVars, homeVars>>

Variants == {"route", "part"}

Pending == "pending"

-----------------------------------------------------------------------------
(* Sequence helpers.                                                       *)

\* p occurs in s at index i.
MatchesAt(s, p, i) ==
    /\ i + Len(p) - 1 <= Len(s)
    /\ \A k \in 1..Len(p) : s[i + k - 1] = p[k]

\* Index of the first ">" at or after i, 0 when there is none.
RECURSIVE FirstGt(_, _)
FirstGt(s, i) ==
    IF i > Len(s) THEN 0
    ELSE IF s[i] = ">" THEN i
    ELSE FirstGt(s, i + 1)

-----------------------------------------------------------------------------
(* cleanSlackText, one operator per .replace() of the chain.               *)

\* Length of the match of  prefix[^>]+>  at i, 0 when it does not match:
\* the prefix, then one or more characters other than ">", then ">".
TagMatchLen(s, prefix, i) ==
    IF ~MatchesAt(s, prefix, i) THEN 0
    ELSE LET j == FirstGt(s, i + Len(prefix))
         IN  IF j > i + Len(prefix) THEN j - i + 1 ELSE 0

\* s.replace(/prefix[^>]+>/g, ""), scanning from i.
RECURSIVE StripTagsFrom(_, _, _)
StripTagsFrom(s, prefix, i) ==
    IF i > Len(s) THEN <<>>
    ELSE LET n == TagMatchLen(s, prefix, i)
         IN  IF n > 0 THEN StripTagsFrom(s, prefix, i + n)
             ELSE <<s[i]>> \o StripTagsFrom(s, prefix, i + 1)

StripTags(s, prefix) == StripTagsFrom(s, prefix, 1)

\* s.replace(/pat/g, rep) for a literal pattern, scanning from i.
RECURSIVE ReplaceAllFrom(_, _, _, _)
ReplaceAllFrom(s, pat, rep, i) ==
    IF i > Len(s) THEN <<>>
    ELSE IF MatchesAt(s, pat, i) THEN rep \o ReplaceAllFrom(s, pat, rep, i + Len(pat))
    ELSE <<s[i]>> \o ReplaceAllFrom(s, pat, rep, i + 1)

ReplaceAll(s, pat, rep) == ReplaceAllFrom(s, pat, rep, 1)

\* The character class [a-z0-9_+-].
EmojiNameChars ==
    { "a", "b", "c", "d", "e", "f", "g", "h", "i", "j", "k", "l", "m", "n", "o",
      "p", "q", "r", "s", "t", "u", "v", "w", "x", "y", "z",
      "0", "1", "2", "3", "4", "5", "6", "7", "8", "9", "_", "+", "-" }

\* Length of the longest run of emoji-name characters starting at i.
RECURSIVE NameRun(_, _)
NameRun(s, i) ==
    IF i > Len(s) \/ s[i] \notin EmojiNameChars THEN 0
    ELSE 1 + NameRun(s, i + 1)

\* Length of the match of  :[a-z0-9_+-]+:  at i, 0 when it does not match.
EmojiMatchLen(s, i) ==
    IF i > Len(s) \/ s[i] # ":" THEN 0
    ELSE LET n == NameRun(s, i + 1)
         IN  IF n > 0 /\ i + n + 1 <= Len(s) /\ s[i + n + 1] = ":" THEN n + 2 ELSE 0

\* s.replace(/:[a-z0-9_+-]+:/g, ""), scanning from i.
RECURSIVE StripEmojiCodesFrom(_, _)
StripEmojiCodesFrom(s, i) ==
    IF i > Len(s) THEN <<>>
    ELSE LET n == EmojiMatchLen(s, i)
         IN  IF n > 0 THEN StripEmojiCodesFrom(s, i + n)
             ELSE <<s[i]>> \o StripEmojiCodesFrom(s, i + 1)

StripEmojiCodes(s) == StripEmojiCodesFrom(s, 1)

\* The characters \s matches among those the model's texts use.
Whitespace == {" ", "\n", "\t"}

\* s.replace(/\s+/g, " "), scanning from i.
RECURSIVE CollapseWsFrom(_, _)
CollapseWsFrom(s, i) ==
    IF i > Len(s) THEN <<>>
    ELSE IF s[i] \in Whitespace
         THEN IF i > 1 /\ s[i - 1] \in Whitespace
              THEN CollapseWsFrom(s, i + 1)
              ELSE <<" ">> \o CollapseWsFrom(s, i + 1)
    ELSE <<s[i]>> \o CollapseWsFrom(s, i + 1)

CollapseWs(s) == CollapseWsFrom(s, 1)

RECURSIVE TrimStart(_)
TrimStart(s) ==
    IF s # <<>> /\ Head(s) \in Whitespace THEN TrimStart(Tail(s)) ELSE s

RECURSIVE TrimEnd(_)
TrimEnd(s) ==
    IF s # <<>> /\ s[Len(s)] \in Whitespace
    THEN TrimEnd(SubSeq(s, 1, Len(s) - 1)) ELSE s

\* String.prototype.trim().
Trim(s) == TrimEnd(TrimStart(s))

\* The three markup removals and the three entity decodings both files share.
StripMarkup(s) ==
    StripTags(StripTags(StripTags(s, <<"<", "@">>), <<"<", "h", "t", "t", "p">>), <<"<">>)

DecodeEntities(s) ==
    ReplaceAll(ReplaceAll(ReplaceAll(s,
        <<"&", "a", "m", "p", ";">>, <<"&">>),
        <<"&", "l", "t", ";">>, <<"<">>),
        <<"&", "g", "t", ";">>, <<">">>)

\* The chain with the whitespace normalised before the markup is removed.
cleanSlackTextTrimFirst(v, text) ==
    LET decoded == DecodeEntities(StripMarkup(Trim(CollapseWs(text))))
    IN  IF v = "route" THEN StripEmojiCodes(decoded) ELSE decoded

\* cleanSlackText of file v: route.ts also strips emoji codes, part_000 keeps them.
cleanSlackText(v, text) ==
    LET decoded == DecodeEntities(StripMarkup(text))
    IN  Trim(CollapseWs(IF v = "route" THEN StripEmojiCodes(decoded) ELSE decoded))

-----------------------------------------------------------------------------
(* Values of the JavaScript program.                                       *)

Null == "null"                \* the value null
Undefined == "undefined"      \* a missing property

\* The completion API has not answered.
NoReply == [kind |-> "none", error |-> <<>>, content |-> <<>>]

\* GET has not returned.
NoResponse == [status |-> 0, body |-> <<>>]

\* The clock when the behaviour starts: late enough for a message to be two
\* weeks old.
StartOfRun == 14 * 24 * 60 * 60 * 1000

\* Timestamps are held in milliseconds, so that Date.now() / 1000 and the
\* fractional `ts` of a message need no fractions: a timestamp t of the code
\* (seconds) is 1000 * t here, and comparisons are unchanged by the scale.
Seconds(n) == n * 1000

-----------------------------------------------------------------------------
(* fetchSlackMessagesFromChannel: the filter chain over one channel reply. *)

\* Array.prototype.filter with predicate Keep.
Filter(s, Keep(_)) ==
    LET kept[i \in 0..Len(s)] ==
            IF i = 0 THEN <<>>
            ELSE IF Keep(s[i]) THEN Append(kept[i - 1], s[i]) ELSE kept[i - 1]
    IN  kept[Len(s)]

\* Array.prototype.map with function F.
Map(s, F(_)) == [i \in 1..Len(s) |-> F(s[i])]

IsMessageType(m) == m.type = "message"

\* The subtype filter left out.
AnySubtype(m) == TRUE

\* !m.subtype || m.subtype === "thread_broadcast".
SubtypeAllowed(m) == m.subtype = Undefined \/ m.subtype = "thread_broadcast"
NotFromBot(m) == m.bot_id = Undefined
HasNoFiles(m) == m.files = Undefined
HasText(m) == m.text # <<>>

typeFiltered(all) == Filter(all, IsMessageType)
subtypeFiltered(all) == Filter(typeFiltered(all), SubtypeAllowed)
botFiltered(all) == Filter(subtypeFiltered(all), NotFromBot)
fileFiltered(all) == Filter(botFiltered(all), HasNoFiles)
textMessages(all) == Filter(fileFiltered(all), HasText)

\* m.reactions.map(r => `:${r.name}:`).join(' '), as characters.
RECURSIVE reactionEmojis(_)
reactionEmojis(rs) ==
    IF rs = <<>> THEN <<>>
    ELSE <<":">> \o Head(rs) \o <<":">>
         \o (IF Len(rs) > 1 THEN <<" ">> ELSE <<>>) \o reactionEmojis(Tail(rs))

\* The text of the cleaned entry: route.ts appends the reactions, part_000 does not.
finalText(v, m) ==
    LET text == cleanSlackText(v, m.text)
    IN  IF v = "route" /\ m.reactions # <<>>
        THEN text \o <<" ", "[", "R", "e", "a", "c", "t", "i", "o", "n", "s", ":", " ">>
                  \o reactionEmojis(m.reactions) \o <<"]">>
        ELSE text

\* parseFloat(m.ts || "0"); a `ts` is <<t>>, or <<>> when the message has none.
ParseTs(ts) == IF ts = <<>> THEN 0 ELSE ts[1]

\* The entry the .map() callback builds; `id` is the raw message it came from
\* (not a field of the code's object: it lets properties name the message).
CleanedEntry(v, m) ==
    [text |-> finalText(v, m), timestamp |-> ParseTs(m.ts), id |-> m.id]

LongEnough(e) == Len(e.text) > 3

\* The `cleaned` array fetchSlackMessagesFromChannel returns for a reply.
cleaned(v, all) ==
    LET Entry(m) == CleanedEntry(v, m)
    IN  Filter(Map(textMessages(all), Entry), LongEnough)

\* The message of the Error thrown for a reply with ok = false.
SlackErrorUnnamed(channelId, reason) == "Slack error: " \o reason

\* `Slack error for channel ${channelId}: ${json.error}`.
SlackErrorMessage(channelId, reason) ==
    "Slack error for channel " \o channelId \o ": " \o reason

-----------------------------------------------------------------------------
(* fetchSlackFromMultipleChannels: flatten, sort, weight.                  *)

\* SLACK_CHANNEL_IDS.split(',').map(id => id.trim()) of the configured list.
channelIds == <<"CA", "CB">>

Channels == {channelIds[i] : i \in 1..Len(channelIds)}

\* allMessages.flat(): the channels' arrays in the order of channelIds.
RECURSIVE Flat(_, _)
Flat(results, i) ==
    IF i > Len(channelIds) THEN <<>>
    ELSE results[channelIds[i]] \o Flat(results, i + 1)

\* Insert e into the list s, sorted newest first, after every entry that does
\* not sort after it: Array.prototype.sort is stable.
RECURSIVE InsertByTimestamp(_, _)
InsertByTimestamp(s, e) ==
    IF s = <<>> THEN <<e>>
    ELSE IF Head(s).timestamp >= e.timestamp
         THEN <<Head(s)>> \o InsertByTimestamp(Tail(s), e)
         ELSE <<e>> \o s

\* The sort with its comparator reversed (a.timestamp - b.timestamp).
RECURSIVE SortOldestFirst(_)
SortOldestFirst(s) ==
    IF s = <<>> THEN <<>>
    ELSE LET rest == SortOldestFirst(Tail(s))
             older == {i \in 1..Len(rest) : rest[i].timestamp <= Head(s).timestamp}
         IN  SubSeq(rest, 1, Cardinality(older)) \o <<Head(s)>>
             \o SubSeq(rest, Cardinality(older) + 1, Len(rest))

\* flatMessages.sort((a, b) => b.timestamp - a.timestamp).
RECURSIVE SortNewestFirst(_)
SortNewestFirst(s) ==
    IF s = <<>> THEN <<>>
    ELSE InsertByTimestamp(SortNewestFirst(SubSeq(s, 1, Len(s) - 1)), s[Len(s)])

\* now - 60 * 60 (part_000) and now - 24 * 60 * 60 (route.ts).
RecentThreshold(v, t) ==
    IF v = "part" THEN t - Seconds(60 * 60) ELSE t - Seconds(24 * 60 * 60)

\* now - 6 * 60 * 60 (part_000) and now - 7 * 24 * 60 * 60 (route.ts).
MiddleThreshold(v, t) ==
    IF v = "part" THEN t - Seconds(6 * 60 * 60) ELSE t - Seconds(7 * 24 * 60 * 60)

\* Weight with both comparisons inclusive: a message exactly at a threshold
\* would stay in the upper tier.
WeightInclusive(v, t, e) ==
    IF e.timestamp >= RecentThreshold(v, t) THEN 3
    ELSE IF e.timestamp >= MiddleThreshold(v, t) THEN 2
    ELSE 1

\* How many times the loop pushes msg.text.
Weight(v, t, e) ==
    IF e.timestamp > RecentThreshold(v, t) THEN 3
    ELSE IF e.timestamp > MiddleThreshold(v, t) THEN 2
    ELSE 1

Repeat(x, n) == [i \in 1..n |-> x]

\* The loop over flatMessages that fills weightedMessages.
RECURSIVE weightedMessages(_, _, _)
weightedMessages(v, t, sorted) ==
    IF sorted = <<>> THEN <<>>
    ELSE Repeat(Head(sorted).text, Weight(v, t, Head(sorted)))
         \o weightedMessages(v, t, Tail(sorted))

\* The channels' arrays joined and left as they are.
flatMessagesUnsorted(results) == Flat(results, 1)

\* flatMessages after the sort, from the channels' results.
flatMessages(results) == SortNewestFirst(Flat(results, 1))

-----------------------------------------------------------------------------
(* Property lookup on an object literal.  obj[key] finds the object's own  *)
(* property first and then what every object inherits from                 *)
(* Object.prototype (functions, and the accessor __proto__).               *)

ObjectPrototypeKeys ==
    { "constructor", "toString", "toLocaleString", "valueOf", "hasOwnProperty",
      "isPrototypeOf", "propertyIsEnumerable", "__proto__", "__defineGetter__",
      "__defineSetter__", "__lookupGetter__", "__lookupSetter__" }

\* The inherited member as a value in a list of strings: an object, no string.
InheritedMember(key) == "[inherited " \o key \o "]"

InheritedMembers == {InheritedMember(k) : k \in ObjectPrototypeKeys}

-----------------------------------------------------------------------------
(* The emoji tables: getBasicEmojiMap, getUnicodeForEmojiName,             *)
(* fetchSlackEmojis, convertSlackEmojiToUnicode.  A glyph is written by    *)
(* its code point.                                                         *)

\* Entries of the static table (the code's table has about a hundred;
\* ":taco:" is one of those only part_000 has).
getBasicEmojiMap(v) ==
    LET common == (":fire:" :> "U+1F525") @@ (":tada:" :> "U+1F38A")
                  @@ (":+1:" :> "U+1F44D") @@ (":sob:" :> "U+1F62D")
    IN  IF v = "part" THEN (":taco:" :> "U+1F32E") @@ common ELSE common

\* `:${name}:`.
Code(name) == ":" \o name \o ":"

getUnicodeForEmojiName(v, name) ==
    IF Code(name) \in DOMAIN getBasicEmojiMap(v)
    THEN getBasicEmojiMap(v)[Code(name)]
    ELSE Code(name)

\* The body of the loop over Object.entries(data.emoji) for one entry:
\* emojiMap after it.  An entry is [name, kind, target]: an alias of target,
\* an image URL, another string, or a value that is no string.
WithEntry(v, emojiMap, e) ==
    CASE e.kind = "alias" ->
            (Code(e.name) :> (IF Code(e.target) \in DOMAIN emojiMap
                              THEN emojiMap[Code(e.target)]
                              ELSE getUnicodeForEmojiName(v, e.target))) @@ emojiMap
      [] e.kind = "url" -> (Code(e.name) :> Code(e.name)) @@ emojiMap
      [] e.kind = "other" -> (Code(e.name) :> getUnicodeForEmojiName(v, e.name)) @@ emojiMap
      [] OTHER -> emojiMap

\* emojiMap after the whole loop.
RECURSIVE BuildEmojiMap(_, _, _)
BuildEmojiMap(v, entries, emojiMap) ==
    IF entries = <<>> THEN emojiMap
    ELSE BuildEmojiMap(v, Tail(entries), WithEntry(v, emojiMap, Head(entries)))

\* { ...getBasicEmojiMap(), ...emojiMap }.
MergedCache(v, entries) == BuildEmojiMap(v, entries, <<>>) @@ getBasicEmojiMap(v)

CACHE_DURATION == 60 * 60 * 1000

NullCache == [null |-> TRUE, map |-> <<>>]

CacheOf(map) == [null |-> FALSE, map |-> map]

\* emoji.list was not called, or has not answered.
NoDirectoryReply == [kind |-> "none", emoji |-> <<>>]

\* The test with the age compared by <=.
CacheFreshInclusive(cache, cacheTime, t) == ~cache.null /\ t - cacheTime <= CACHE_DURATION

\* emojiCache && Date.now() - emojiCacheTime < CACHE_DURATION.
CacheFresh(cache, cacheTime, t) == ~cache.null /\ t - cacheTime < CACHE_DURATION

\* emojiMap[emojiCode] || emojiCode.
Translate(emojiMap, emojiCode) ==
    LET found == IF emojiCode \in DOMAIN emojiMap THEN emojiMap[emojiCode]
                 ELSE IF emojiCode \in ObjectPrototypeKeys THEN InheritedMember(emojiCode)
                 ELSE Undefined
    IN  IF found \notin {Undefined, ""} THEN found ELSE emojiCode

\* convertSlackEmojiToUnicode up to its first await: with a fresh cache
\* fetchSlackEmojis returns it, otherwise (no cache, or a stale one) it
\* requests emoji.list.
StartCall(v, cache, cacheTime, t, emojiCode) ==
    IF CacheFresh(cache, cacheTime, t)
    THEN [code |-> emojiCode, st |-> "done", found |-> "fresh", reply |-> NoDirectoryReply,
          result |-> Translate(cache.map, emojiCode)]
    ELSE [code |-> emojiCode, st |-> "fetching",
          found |-> IF cache.null THEN "none" ELSE "stale",
          reply |-> NoDirectoryReply, result |-> Undefined]

\* A workspace directory: a custom emoji, an alias of it, an alias of a
\* standard emoji, a standard name, and a value that is no string.
TeamDirectory ==
    << [name |-> "shipit", kind |-> "url", target |-> ""],
       [name |-> "ship", kind |-> "alias", target |-> "shipit"],
       [name |-> "flame", kind |-> "alias", target |-> "fire"],
       [name |-> "tada", kind |-> "other", target |-> ""],
       [name |-> "odd", kind |-> "nonstring", target |-> ""] >>

\* The directory after the custom emoji and its alias were removed and
\* another custom emoji was added.
LaterDirectory ==
    << [name |-> "parrot", kind |-> "url", target |-> ""],
       [name |-> "flame", kind |-> "alias", target |-> "fire"] >>

\* The answers of emoji.list: ok with a directory, ok without one
\* (Object.entries throws), ok = false, or no body (the fetch throws).
DirectoryReplies ==
    { [kind |-> "ok", emoji |-> d] : d \in world.directories }
    \cup { [kind |-> "malformed", emoji |-> <<>>],
           [kind |-> "notok", emoji |-> <<>>],
           [kind |-> "throw", emoji |-> <<>>] }

-----------------------------------------------------------------------------
(* playlistsForMood.                                                       *)

Spotify(id) == [scheme |-> "https", host |-> "open.spotify.com", path |-> "/playlist/" \o id]

\* The table `map` of file v.
PlaylistTable(v) ==
    [Chaos |-> [name |-> "Calm Lo-Fi Focus", url |-> Spotify("37i9dQZF1DX3Ogo9pFvBkY")],
     Stressed |-> IF v = "part"
                  THEN [name |-> "Peaceful Piano", url |-> Spotify("37i9dQZF1DX4sWSpwBtn3A")]
                  ELSE [name |-> "Chill Hits", url |-> Spotify("37i9dQZF1DX4WYpdgoIcn6")],
     Neutral |-> [name |-> "Easy Indie", url |-> Spotify("37i9dQZF1DX2Nc3B70tvx0")],
     Good |-> [name |-> "Feel Good Pop", url |-> Spotify("37i9dQZF1DXdPec7aLTmlC")],
     Vibes |-> [name |-> "Office Party Bangers", url |-> Spotify("37i9dQZF1DXaXB8fQg7xif")]]

\* map[moodLabel] || map.Neutral; an inherited member is an object, and truthy.
playlistsForMood(v, moodLabel) ==
    IF moodLabel \in DOMAIN PlaylistTable(v) THEN PlaylistTable(v)[moodLabel]
    ELSE IF moodLabel \in ObjectPrototypeKeys THEN [inherited |-> moodLabel]
    ELSE PlaylistTable(v).Neutral

-----------------------------------------------------------------------------
(* What the chat workspace may hold.  A message is described by its age    *)
(* when the channel answers; its `ts` is the clock minus that age.         *)

TextShipIt == <<"s", "h", "i", "p", " ", "i", "t">>
TextOhNo == <<"o", "h", " ", "n", "o">>
TextOk == <<"o", "k">>
TextMentionOk == <<"<", "@", "U", "1", ">", " ", "o", "k">>
TextMentionShipIt == <<"<", "@", "U", "1", ">", " ", "s", "h", "i", "p", " ", "i", "t">>
TextThumbs == <<":", "+", "1", ":">>

\* An ordinary message of a person: no subtype, no bot, no files, no reactions;
\* `stamped` is FALSE for a message without `ts`.
Plain(text, age) ==
    [type |-> "message", subtype |-> Undefined, bot_id |-> Undefined,
     files |-> Undefined, text |-> text, reactions |-> <<>>, age |-> age,
     stamped |-> TRUE]

\* The width of the most recent tier and of the two upper tiers together.
RecentWindow(v) == clock - RecentThreshold(v, clock)
MiddleWindow(v) == clock - MiddleThreshold(v, clock)

\* Ages on both sides of, and exactly at, the thresholds of file v.
Ages(v) == {0, Seconds(2 * 60 * 60), RecentWindow(v), MiddleWindow(v)}

\* Ordinary messages of every age, with two texts (so that two messages can
\* carry the same text).
AgedSlack(v) == {Plain(t, a) : t \in {TextShipIt, TextOhNo}, a \in Ages(v)}

\* Two messages that pass every filter.
PassingSlack == {Plain(TextShipIt, 0), Plain(TextOhNo, Seconds(2 * 60 * 60))}

\* One message per way of failing a filter on a property other than the text.
MixedSlack(v) ==
    PassingSlack
    \cup { [Plain(TextShipIt, 0) EXCEPT !.type = "event"],
           [Plain(TextShipIt, 0) EXCEPT !.subtype = "channel_join"],
           [Plain(TextShipIt, 0) EXCEPT !.subtype = "thread_broadcast"],
           [Plain(TextShipIt, 0) EXCEPT !.bot_id = "B1"],
           [Plain(TextShipIt, 0) EXCEPT !.files = "files"],
           [Plain(TextShipIt, 0) EXCEPT !.stamped = FALSE] }

\* Texts that are empty, short, short once cleaned, or an emoji code, and a
\* short text with a reaction.
TerseSlack(v) ==
    PassingSlack
    \cup { [Plain(TextOk, 0) EXCEPT !.reactions = << <<"f", "i", "r", "e">> >>],
           Plain(<<>>, 0), Plain(TextOk, 0), Plain(TextMentionOk, 0),
           Plain(TextMentionShipIt, 0), Plain(TextThumbs, 0) }

\* The messages all channels together return in one request.
MaxMsgs == 2

RECURSIVE SeqsUpTo(_, _)
SeqsUpTo(S, n) ==
    IF n = 0 THEN {<<>>}
    ELSE SeqsUpTo(S, n - 1) \cup {Append(q, x) : q \in SeqsUpTo(S, n - 1), x \in S}

\* The raw message of channel c at index i for a described message.
RawMessage(m, c, i) ==
    [id |-> <<c, i>>, type |-> m.type, subtype |-> m.subtype, bot_id |-> m.bot_id,
     files |-> m.files, text |-> m.text, reactions |-> m.reactions,
     ts |-> IF m.stamped THEN <<clock - m.age>> ELSE <<>>]

\* The answers of conversations.history: a body with ok = true and messages,
\* a body with ok = false and an error, or no body (the fetch or res.json() throws).
HistoryReplies(c, room) ==
    {[kind |-> "ok", messages |-> [i \in 1..Len(q) |-> RawMessage(q[i], c, i)]] :
        q \in SeqsUpTo(world.slack, room)}
    \cup {[kind |-> "notok", error |-> r] : r \in {"invalid_auth", "channel_not_found"}}
    \cup {[kind |-> "throw", message |-> "fetch failed"]}

-----------------------------------------------------------------------------
(* GET, up to the call of the completion API.                              *)

\* A channel call: its state, the messages of the reply and the array it
\* returns, or the reason of an ok = false reply and the message of its Error.
ChannelIdle ==
    [st |-> "idle", raw |-> <<>>, out |-> <<>>, reason |-> Undefined, err |-> Undefined]

\* No request sent yet: conversations.history per channel, the completion
\* API, emoji.list.
NoneSent == [history |-> [c \in Channels |-> 0], completion |-> 0, directory |-> 0]

\* channelIds.map(channelId => fetchSlackMessagesFromChannel(channelId)): one
\* call, and one fetch of conversations.history, per entry of channelIds.
CallsPerChannelTwice(ids) == [c \in Channels |-> 2]

CallsPerChannel(ids) ==
    [c \in Channels |-> Cardinality({i \in 1..Len(ids) : ids[i] = c})]

RequestIdle ==
    /\ pc = "idle"
    /\ chan = [c \in Channels |-> ChannelIdle]
    /\ joined = "pending"
    /\ now = 0
    /\ msgs = <<>>
    /\ oracle = NoReply
    /\ calls = <<>>
    /\ response = NoResponse
    /\ catches = 0
    /\ failures = {}
    /\ sent = NoneSent

\* The catch clause without its { status: 500 }.
ErrorResponseOk(message) ==
    [status |-> 200, body |-> [error |-> IF message = "" THEN "Error" ELSE message]]

\* GET's catch clause: Response.json({ error: String(e.message || e) }, { status: 500 }).
ErrorResponse(message) ==
    [status |-> 500, body |-> [error |-> IF message = "" THEN "Error" ELSE message]]

\* The message of the TypeError of undefined.split(',').
SplitOfUndefined == "Cannot read properties of undefined (reading 'split')"

\* GET is called: fetchSlackFromMultipleChannels reads the channel list and
\* starts one fetchSlackMessagesFromChannel per channel; an unset list throws.
Start ==
    /\ pc = "idle"
    /\ IF env.channels
       THEN /\ pc' = "fetching"
            /\ chan' = [c \in Channels |-> [ChannelIdle EXCEPT !.st = "pending"]]
            /\ sent' = [sent EXCEPT !.history = CallsPerChannel(channelIds)]
            /\ UNCHANGED <<response, catches, failures>>
       ELSE /\ pc' = "done"
            /\ response' = ErrorResponse(SplitOfUndefined)
            /\ catches' = catches + 1
            /\ failures' = failures \cup {"config"}
            /\ UNCHANGED <<chan, sent>>
    /\ UNCHANGED <<joined, now, msgs, oracle, calls, fixedVars, cleanVars, cacheVars, homeVars>>

\* How many raw messages the channels have returned so far.
RECURSIVE Received(_, _)
Received(ch, i) ==
    IF i > Len(channelIds) THEN 0
    ELSE Len(ch[channelIds[i]].raw) + Received(ch, i + 1)

\* The channel call after the reply r: fulfilled with `cleaned`, or rejected.
Settled(c, r) ==
    CASE r.kind = "ok" ->
            [st |-> "fulfilled", raw |-> r.messages,
             out |-> cleaned(variant, r.messages), reason |-> Undefined, err |-> Undefined]
      [] r.kind = "notok" ->
            [st |-> "rejected", raw |-> <<>>, out |-> <<>>, reason |-> r.error,
             err |-> SlackErrorMessage(c, r.error)]
      [] r.kind = "throw" ->
            [st |-> "rejected", raw |-> <<>>, out |-> <<>>, reason |-> Undefined,
             err |-> r.message]

FailureOf(r) ==
    CASE r.kind = "ok" -> {}
      [] r.kind = "notok" -> {"channel"}
      [] r.kind = "throw" -> {"transport"}

\* The channels' `cleaned` arrays, by channel.
Results(ch) == [c \in Channels |-> ch[c].out]

\* Every rejection rejects the joined promise anew.
RejectsJoinEveryTime(j, st) == j # "fulfilled" /\ st = "rejected"

\* Promise.all rejects with the first rejection of a call, while it is pending.
RejectsJoin(j, st) == j = "pending" /\ st = "rejected"

\* One fulfilled call is enough.
AnyFulfilled(ch) == \E d \in Channels : ch[d].st = "fulfilled"

\* Promise.all fulfils when every call has.
AllFulfilled(ch) == \A d \in Channels : ch[d].st = "fulfilled"

\* The history fetch of channel c answers with r.  The call settles; the
\* Promise.all settles with it when it is the first rejection or the last
\* fulfilment, and what awaits it runs on: the catch clause of GET, or the sort,
\* the weighting and the request to the completion API.
ChannelReply(c, r) ==
    /\ chan[c].st = "pending"
    /\ chan' = [chan EXCEPT ![c] = Settled(c, r)]
    /\ failures' = failures \cup FailureOf(r)
    /\ IF RejectsJoin(joined, chan'[c].st)
       THEN /\ joined' = "rejected"
            /\ pc' = "done"
            /\ response' = ErrorResponse(chan'[c].err)
            /\ catches' = catches + 1
            /\ UNCHANGED <<now, msgs, sent>>
       ELSE IF joined = "pending" /\ AllFulfilled(chan')
       THEN /\ joined' = "fulfilled"
            /\ now' = clock
            /\ msgs' = weightedMessages(variant, clock, flatMessages(Results(chan')))
            /\ pc' = "analyzing"
            /\ sent' = [sent EXCEPT !.completion = @ + 1]
            /\ UNCHANGED <<response, catches>>
       ELSE UNCHANGED <<pc, joined, now, msgs, response, catches, sent>>
    /\ UNCHANGED <<oracle, calls, fixedVars, cleanVars, cacheVars, homeVars>>

HistoryAnswers ==
    \E c \in Channels :
        \E r \in HistoryReplies(c, MaxMsgs - Received(chan, 1)) : ChannelReply(c, r)

-----------------------------------------------------------------------------
(* What the completion API may answer.                                     *)

MoodLabels == {"Chaos", "Stressed", "Neutral", "Good", "Vibes"}

\* The object a well-formed completion describes.
Analysis(label, score, emojis) ==
    [mood_score |-> score, mood_label |-> label, summary |-> "busy but upbeat",
     positive_signals |-> <<"launch">>, negative_signals |-> <<"deadline">>,
     top_emojis |-> emojis]

\* The object without the property `key`.
Without(obj, key) == [k \in DOMAIN obj \ {key} |-> obj[k]]

\* A text of n characters that begins like a sentence.
Prose(n) == [i \in 1..n |-> IF i = 1 THEN "T" ELSE IF i = n THEN "." ELSE "o"]

\* A completion: its text (a sequence of characters), and what JSON.parse
\* makes of it: an object, null, or a SyntaxError.
JsonObject(value) == [text |-> <<"{", "}">>, json |-> "object", value |-> value]
JsonNull == [text |-> <<"n", "u", "l", "l">>, json |-> "null", value |-> <<>>]
NotJson == [text |-> Prose(16), json |-> "malformed", value |-> <<>>]
LongNotJson == [text |-> Prose(130), json |-> "malformed", value |-> <<>>]

OracleThrow == [kind |-> "throw", error |-> <<>>, content |-> NotJson]
OracleError(err) == [kind |-> "error", error |-> err, content |-> NotJson]
OracleEmpty == [kind |-> "empty", error |-> <<>>, content |-> NotJson]
OracleContent(c) == [kind |-> "content", error |-> <<>>, content |-> c]

RateLimited == [message |-> "rate limited"]
Unexplained == [message |-> ""]
QuotaCode == [code |-> "insufficient_quota"]

\* Codes the oracle may list: in the static table, a custom emoji and an alias
\* of the directory, in neither, the empty string, and the name of a member
\* every object inherits.
Codes == {":fire:", ":shipit:", ":flame:", ":zzz:", "", "constructor"}

\* The entries of top_emojis in one completion.
MaxEmojis == 2

LeanOracle ==
    {OracleError(RateLimited), OracleContent(JsonObject(Analysis("Good", 85, <<>>)))}

\* Every kind of reply, every label and a label outside the five, scores in
\* and out of 0..100, and objects that lack a property.
RichOracle ==
    {OracleThrow, OracleError(RateLimited), OracleError(QuotaCode),
     OracleError(Unexplained), OracleEmpty,
     OracleContent(NotJson), OracleContent(LongNotJson), OracleContent(JsonNull)}
    \cup {OracleContent(JsonObject(Analysis(l, 85, <<":fire:">>))) :
            l \in MoodLabels \cup {"Meh", "constructor"}}
    \cup {OracleContent(JsonObject(Analysis("Chaos", n, <<>>))) : n \in {0 - 5, 10, 150}}
    \cup {OracleContent(JsonObject(Analysis("Vibes", 150, <<":flame:", ":tada:">>)))}
    \cup {OracleContent(JsonObject(Without(Analysis("Good", 85, <<":fire:">>), k))) :
            k \in {"mood_score", "mood_label", "top_emojis"}}

EmojiOracle ==
    {OracleContent(JsonObject(Analysis("Vibes", 85, e))) : e \in SeqsUpTo(Codes, MaxEmojis)}

\* The emoji cache of a process that has not fetched the directory.
ColdCache == [cache |-> NullCache, time |-> 0]

\* The emoji cache a process may hold when a request arrives: none yet, one
\* built from the directory half an hour ago, one built an hour ago.
Caches(v) ==
    { ColdCache,
      [cache |-> CacheOf(MergedCache(v, TeamDirectory)), time |-> clock - CACHE_DURATION \div 2],
      [cache |-> CacheOf(MergedCache(v, TeamDirectory)), time |-> clock - CACHE_DURATION] }

\* The behaviours explored are those of five worlds: a workspace with
\* messages of every age, or of every kind, or with every kind of text, and an
\* oracle with two answers; one message and an oracle with every kind of
\* answer; silent channels, an oracle that lists emoji and a process with any
\* cache.
Worlds(v) ==
    { [slack |-> AgedSlack(v), oracle |-> LeanOracle, caches |-> {ColdCache},
       directories |-> {TeamDirectory}],
      [slack |-> MixedSlack(v), oracle |-> LeanOracle, caches |-> {ColdCache},
       directories |-> {TeamDirectory}],
      [slack |-> TerseSlack(v), oracle |-> LeanOracle, caches |-> {ColdCache},
       directories |-> {TeamDirectory}],
      [slack |-> {Plain(TextShipIt, 0)}, oracle |-> RichOracle,
       caches |-> {ColdCache}, directories |-> {TeamDirectory}],
      [slack |-> {}, oracle |-> EmojiOracle, caches |-> Caches(v),
       directories |-> {TeamDirectory}] }

-----------------------------------------------------------------------------
(* analyzeWithAI / analyzeWithOpenAI and the rest of GET.                  *)

\* JSON.stringify of the error objects the oracle returns.
JsonStringify(err) ==
    IF DOMAIN err = {"code"} THEN "{\"code\":\"" \o err.code \o "\"}"
    ELSE IF DOMAIN err = {"message"} THEN "{\"message\":\"" \o err.message \o "\"}"
    ELSE "{}"

\* The message made of the whole error object.
OracleErrorStringified(err) == "OpenAI API error: " \o JsonStringify(err)

\* `OpenAI API error: ${data.error.message || JSON.stringify(data.error)}`.
OracleErrorMessage(err) ==
    "OpenAI API error: "
        \o (IF "message" \in DOMAIN err /\ err.message # "" THEN err.message
            ELSE JsonStringify(err))

NoContentMessage == "OpenAI returned no content"

\* The characters of a text as one string.
RECURSIVE Str(_)
Str(text) == IF text = <<>> THEN "" ELSE Head(text) \o Str(Tail(text))

ExcerptLength == 100

\* content.substring(0, 100).
Excerpt(text) ==
    IF Len(text) <= ExcerptLength THEN text ELSE SubSeq(text, 1, ExcerptLength)

\* route.ts: the Error its catch clause throws.
ParseFailureMessage(content) ==
    "Failed to parse OpenAI response as JSON: " \o Str(Excerpt(content.text)) \o "..."

\* What JSON.parse(content) and parsed.top_emojis.map(...) throw: "" when
\* they do not.
ThrownInParse(content) ==
    CASE content.json = "malformed" -> "Unexpected token T in JSON at position 0"
      [] content.json = "null" -> "Cannot read properties of null (reading 'top_emojis')"
      [] "top_emojis" \notin DOMAIN content.value ->
            "Cannot read properties of undefined (reading 'map')"
      [] OTHER -> ""

\* The response with sample_size counting the distinct texts.
MoodResponseUnique(v, mood, weighted, t) ==
    LET label == IF "mood_label" \in DOMAIN mood THEN mood.mood_label ELSE Undefined
        added == [playlist |-> playlistsForMood(v, label),
                  sample_size |-> Cardinality({weighted[i] : i \in 1..Len(weighted)}),
                  generated_at |-> t]
    IN  [status |-> 200,
         body |-> [k \in DOMAIN mood \cup DOMAIN added |->
                      IF k \in DOMAIN added THEN added[k] ELSE mood[k]]]

\* { ...mood, playlist, sample_size, generated_at } with status 200.
MoodResponse(v, mood, weighted, t) ==
    LET label == IF "mood_label" \in DOMAIN mood THEN mood.mood_label ELSE Undefined
        added == [playlist |-> playlistsForMood(v, label),
                  sample_size |-> Len(weighted), generated_at |-> t]
    IN  [status |-> 200,
         body |-> [k \in DOMAIN mood \cup DOMAIN added |->
                      IF k \in DOMAIN added THEN added[k] ELSE mood[k]]]

\* parsed with the translations and with mood_score brought into 0..100.
TranslatedClamped(parsed, cs) ==
    LET score == IF "mood_score" \notin DOMAIN parsed THEN Undefined
                 ELSE IF parsed.mood_score > 100 THEN 100
                 ELSE IF parsed.mood_score < 0 THEN 0
                 ELSE parsed.mood_score
    IN  [k \in DOMAIN parsed |->
            IF k = "top_emojis" THEN [i \in 1..Len(cs) |-> cs[i].result]
            ELSE IF k = "mood_score" THEN score
            ELSE parsed[k]]

\* parsed after parsed.top_emojis = await Promise.all(...).
Translated(parsed, cs) == [parsed EXCEPT !.top_emojis = [i \in 1..Len(cs) |-> cs[i].result]]

AllDone(cs) == \A i \in 1..Len(cs) : cs[i].st = "done"

\* How many of the calls went on to request emoji.list.
Fetching(cs) == Cardinality({i \in 1..Len(cs) : cs[i].st = "fetching"})

\* The rest of the request once every convertSlackEmojiToUnicode call has
\* returned: analyzeWithAI returns parsed and GET answers 200.
Finish(parsed, cs) ==
    IF AllDone(cs)
    THEN /\ pc' = "done"
         /\ response' = MoodResponse(variant, Translated(parsed, cs), msgs, clock)
    ELSE /\ pc' = "translating"
         /\ UNCHANGED response

\* The completion API answers with r.  An error, a missing content and (in
\* part_000) an exception of the parse step reach GET's catch clause; route.ts
\* catches the parse step's exception itself and throws its own Error.
OracleReply(r) ==
    /\ pc = "analyzing"
    /\ oracle' = r
    /\ CASE r.kind = "throw" ->
              /\ response' = ErrorResponse("fetch failed")
              /\ failures' = failures \cup {"transport"}
              /\ catches' = catches + 1
              /\ pc' = "done"
              /\ UNCHANGED <<calls, sent>>
         [] r.kind = "error" ->
              /\ response' = ErrorResponse(OracleErrorMessage(r.error))
              /\ failures' = failures \cup {"oracle"}
              /\ catches' = catches + 1
              /\ pc' = "done"
              /\ UNCHANGED <<calls, sent>>
         [] r.kind = "empty" ->
              /\ response' = ErrorResponse(NoContentMessage)
              /\ failures' = failures \cup {"empty"}
              /\ catches' = catches + 1
              /\ pc' = "done"
              /\ UNCHANGED <<calls, sent>>
         [] r.kind = "content" /\ ThrownInParse(r.content) # "" ->
              /\ response' = ErrorResponse(IF variant = "route"
                                           THEN ParseFailureMessage(r.content)
                                           ELSE ThrownInParse(r.content))
              /\ failures' = failures \cup {"parse"}
              /\ catches' = catches + (IF variant = "route" THEN 2 ELSE 1)
              /\ pc' = "done"
              /\ UNCHANGED <<calls, sent>>
         [] OTHER ->
              /\ calls' = [i \in 1..Len(r.content.value.top_emojis) |->
                              StartCall(variant, emojiCache, emojiCacheTime, clock,
                                        r.content.value.top_emojis[i])]
              /\ sent' = [sent EXCEPT !.directory = @ + Fetching(calls')]
              /\ Finish(r.content.value, calls')
              /\ UNCHANGED <<failures, catches>>
    /\ UNCHANGED <<chan, joined, now, msgs, fixedVars, cleanVars, cacheVars, homeVars>>

OracleAnswers == \E r \in world.oracle : OracleReply(r)

\* emoji.list answers the call i with d: fetchSlackEmojis stores the merged
\* map, or returns the static table (after its catch clause when something
\* threw), and convertSlackEmojiToUnicode looks the code up.
EmojiReply(i, d) ==
    /\ i \in 1..Len(calls)
    /\ calls[i].st = "fetching"
    /\ LET stored == MergedCache(variant, d.emoji)
           emojiMap == IF d.kind = "ok" THEN stored ELSE getBasicEmojiMap(variant)
       IN  /\ IF d.kind = "ok"
              THEN /\ emojiCache' = CacheOf(stored)
                   /\ emojiCacheTime' = clock
              ELSE UNCHANGED cacheVars
           /\ calls' = [calls EXCEPT ![i] = [code |-> calls[i].code, st |-> "done",
                                             found |-> calls[i].found, reply |-> d,
                                             result |-> Translate(emojiMap, calls[i].code)]]
    /\ failures' = IF d.kind = "ok" THEN failures ELSE failures \cup {"emoji"}
    /\ catches' = IF d.kind \in {"malformed", "throw"} THEN catches + 1 ELSE catches
    /\ Finish(oracle.content.value, calls')
    /\ UNCHANGED <<chan, joined, now, msgs, oracle, sent, fixedVars, cleanVars, homeVars>>

EmojiAnswers == \E i \in 1..Len(calls) : \E d \in DirectoryReplies : EmojiReply(i, d)

-----------------------------------------------------------------------------
(* The normaliser on its own: every text built from at most MaxPieces      *)
(* pieces is cleaned, and the result cleaned again.                        *)

MaxPieces == 4

\* Fragments the input texts are concatenated from.
Pieces ==
    { <<"<">>, <<">">>, <<"&">>, <<"a", "m", "p", ";">>, <<"g", "t", ";">>,
      <<":">>, <<"a">>, <<" ">>, <<"<", "@", "U", "1", ">">> }

RECURSIVE Texts(_)
Texts(n) ==
    IF n = 0 THEN {<<>>}
    ELSE Texts(n - 1) \cup {t \o p : t \in Texts(n - 1), p \in Pieces}

\* The process as the module loads: no request, an empty emoji cache.
Loaded ==
    /\ RequestIdle
    /\ emojiCache = NullCache
    /\ emojiCacheTime = 0
    /\ clock = StartOfRun

\* The state `data`: null, or the payload of the last mood reply.
NoData == [null |-> TRUE, value |-> <<>>]

DataOf(json) == [null |-> FALSE, value |-> json]

\* Home before it is mounted: useState(null), useState(true), useState(null),
\* useState(false).
HomeIdle ==
    /\ mounted = FALSE
    /\ data = NoData
    /\ loading = TRUE
    /\ error = Null
    /\ isRefreshing = FALSE
    /\ inFlight = <<>>
    /\ confetti = 0
    /\ rain = 0

CleanIdle ==
    /\ cleanIn = <<>>
    /\ cleanOut = Pending
    /\ cleanTwice = Pending

InitClean ==
    /\ variant \in Variants
    /\ cleanIn \in Texts(MaxPieces)
    /\ cleanOut = Pending
    /\ cleanTwice = Pending
    /\ world = [slack |-> {}, oracle |-> {}, caches |-> {}, directories |-> {}]
    /\ env = [channels |-> TRUE]
    /\ Loaded
    /\ HomeIdle

\* A call of cleanSlackText on the input.
CleanOnce ==
    /\ cleanOut = Pending
    /\ cleanOut' = cleanSlackText(variant, cleanIn)
    /\ UNCHANGED <<cleanIn, cleanTwice, fixedVars, reqVars, cacheVars, homeVars>>

\* A second call, on the first call's result.
CleanAgain ==
    /\ cleanOut # Pending
    /\ cleanTwice = Pending
    /\ cleanTwice' = cleanSlackText(variant, cleanOut)
    /\ UNCHANGED <<cleanIn, cleanOut, fixedVars, reqVars, cacheVars, homeVars>>

NextClean == CleanOnce \/ CleanAgain

SpecClean == InitClean /\ [][NextClean]_vars

-----------------------------------------------------------------------------
(* One request to GET /api/mood.                                           *)

Init ==
    /\ variant \in Variants
    /\ CleanIdle
    /\ env \in [channels : BOOLEAN]
    /\ clock = StartOfRun
    /\ RequestIdle
    /\ HomeIdle
    /\ world \in Worlds(variant)
    /\ \E c \in world.caches : emojiCache = c.cache /\ emojiCacheTime = c.time

Next ==
    \/ Start
    \/ HistoryAnswers
    \/ OracleAnswers
    \/ EmojiAnswers

Spec == Init /\ [][Next]_vars

-----------------------------------------------------------------------------
(* The process over time: time passes and GET is called again and again,   *)
(* with the emoji cache kept between requests.                             *)

\* The steps of half a CACHE_DURATION the clock may take.
MaxTicks == 3

HalfWindow == CACHE_DURATION \div 2

\* Time passes, at any point of a request.
Tick ==
    /\ clock < StartOfRun + MaxTicks * HalfWindow
    /\ clock' = clock + HalfWindow
    /\ UNCHANGED <<variant, world, env, cleanVars, reqVars, cacheVars, homeVars>>

\* GET has answered and no call of the request is in flight: the next request.
NextRequest ==
    /\ pc = "done"
    /\ \A c \in Channels : chan[c].st # "pending"
    /\ pc' = "idle"
    /\ chan' = [c \in Channels |-> ChannelIdle]
    /\ joined' = "pending"
    /\ now' = 0
    /\ msgs' = <<>>
    /\ oracle' = NoReply
    /\ calls' = <<>>
    /\ response' = NoResponse
    /\ catches' = 0
    /\ failures' = {}
    /\ sent' = NoneSent
    /\ UNCHANGED <<fixedVars, cleanVars, cacheVars, homeVars>>

\* Completions that list a custom emoji up to MaxEmojis times.
ServerOracle ==
    {OracleContent(JsonObject(Analysis("Good", 85, e))) : e \in SeqsUpTo({":shipit:"}, MaxEmojis)}

\* Silent channels, and a directory that changes between two fetches.
ServerWorld ==
    [slack |-> {}, oracle |-> ServerOracle, caches |-> {ColdCache},
     directories |-> {TeamDirectory, LaterDirectory}]

InitServer ==
    /\ variant \in Variants
    /\ CleanIdle
    /\ env = [channels |-> TRUE]
    /\ world = ServerWorld
    /\ Loaded
    /\ HomeIdle

NextServer ==
    \/ Start
    \/ HistoryAnswers
    \/ OracleAnswers
    \/ EmojiAnswers
    \/ Tick
    \/ NextRequest

SpecServer == InitServer /\ [][NextServer]_vars

-----------------------------------------------------------------------------
(* Properties of the aggregator.                                           *)

\* The surviving messages of the request, newest first, once every channel
\* has answered.
Survivors == flatMessages(Results(chan))

Aggregated == joined = "fulfilled"

\* How often x occurs in the sequence q.
Count(q, x) == Cardinality({i \in 1..Len(q) : q[i] = x})

Hours(n) == n * 60 * 60 * 1000

\* The tier weight the specification gives a message: 3 when newer than
\* now - 1h (part_000) or now - 24h (route.ts), 2 when newer than now - 6h or
\* now - 7d, 1 otherwise; a message exactly at a threshold is in the lower tier.
TierWeight(e) ==
    IF e.timestamp > now - Hours(IF variant = "part" THEN 1 ELSE 24) THEN 3
    ELSE IF e.timestamp > now - Hours(IF variant = "part" THEN 6 ELSE 7 * 24) THEN 2
    ELSE 1

\* The sum of the tier weights of the entries of q that satisfy Keep.
SumOfWeights(q, Keep(_)) ==
    LET sum[i \in 0..Len(q)] ==
            IF i = 0 THEN 0
            ELSE sum[i - 1] + (IF Keep(q[i]) THEN TierWeight(q[i]) ELSE 0)
    IN  sum[Len(q)]

AnyEntry(e) == TRUE

\* The raw message an entry was made from.
RawOf(e) == chan[e.id[1]].raw[e.id[2]]

\* C1, as stated: the text of every surviving message appears in the weighted
\* sequence exactly as many times as the message's tier weight.
C1_TextAppearsWeightTimes ==
    Aggregated =>
        \A i \in 1..Len(Survivors) :
            Count(msgs, Survivors[i].text) = TierWeight(Survivors[i])

\* C1, amended: every surviving message contributes exactly its tier weight
\* of entries, so a text appears as many times as the tier weights of the
\* surviving messages that carry it add up to (exactly 3, 2 or 1 times when no
\* other surviving message has the same text), and the sequence holds nothing else.
C1_TextAppearsSumOfWeights ==
    Aggregated =>
        /\ \A i \in 1..Len(Survivors) :
              LET SameText(e) == e.text = Survivors[i].text
              IN  Count(msgs, Survivors[i].text) = SumOfWeights(Survivors, SameText)
        /\ Len(msgs) = SumOfWeights(Survivors, AnyEntry)

\* C1, witness: a message exactly at the upper threshold counted twice beside a
\* newer message with another text counted three times.
C1_Witness ==
    /\ Aggregated
    /\ \E i, j \in 1..Len(Survivors) :
          /\ Survivors[i].text # Survivors[j].text
          /\ Survivors[i].timestamp = now
          /\ Count(msgs, Survivors[i].text) = 3
          /\ Survivors[j].timestamp = RecentThreshold(variant, now)
          /\ Count(msgs, Survivors[j].text) = 2

\* C2: in every 200 response sample_size is the length of the weighted
\* sequence handed to the classifier, which is the sum of the tier weights of
\* the surviving messages.
C2_SampleSizeIsWeightedLength ==
    response.status = 200 =>
        /\ response.body.sample_size = Len(msgs)
        /\ response.body.sample_size = SumOfWeights(Survivors, AnyEntry)

\* C2, witness: a 200 response whose sample_size is larger than the number of
\* surviving messages.
C2_Witness ==
    /\ response.status = 200
    /\ Len(Survivors) = 2
    /\ response.body.sample_size > Len(Survivors)

\* The scenario of C3: channel A returns one surviving message with timestamp
\* now, channel B one surviving message with timestamp now - 2 hours.
C3_Scenario ==
    /\ Aggregated
    /\ Len(chan["CA"].out) = 1
    /\ chan["CA"].out[1].timestamp = now
    /\ Len(chan["CB"].out) = 1
    /\ chan["CB"].out[1].timestamp = now - Hours(2)

\* C3, as stated: in the scenario the weighted sequence has length 5, begins
\* with channel A's text, and a 200 response has sample_size 5.
C3_LengthFive ==
    C3_Scenario =>
        /\ Len(msgs) = 5
        /\ msgs[1] = chan["CA"].out[1].text
        /\ response.status = 200 => response.body.sample_size = 5

\* C3, amended: in the scenario the weighted sequence begins with three
\* entries of channel A's text followed by channel B's text; with the
\* thresholds of part_000 (1h, 6h) it has length 5 (weights 3 and 2) and a 200
\* response has sample_size 5, with those of route.ts (24h, 7d) both messages
\* are in the most recent tier and the length and sample_size are 6.
C3_LengthByVariant ==
    C3_Scenario =>
        LET n == IF variant = "part" THEN 5 ELSE 6
        IN  /\ Len(msgs) = n
            /\ \A i \in 1..3 : msgs[i] = chan["CA"].out[1].text
            /\ \A i \in 4..n : msgs[i] = chan["CB"].out[1].text
            /\ response.status = 200 => response.body.sample_size = n

\* C3, witness: the scenario in part_000, answered with sample_size 5.
C3_Witness ==
    /\ C3_Scenario
    /\ variant = "part"
    /\ chan["CA"].out[1].text # chan["CB"].out[1].text
    /\ response.status = 200
    /\ response.body.sample_size = 5

\* A subtype other than "thread_broadcast".
OtherSubtype(m) == m.subtype \notin {Undefined, "thread_broadcast"}

\* C4: a raw message with a subtype other than "thread_broadcast" is not in
\* the array fetchSlackMessagesFromChannel returns, and no entry of the
\* weighted sequence comes from one.
C4_OtherSubtypesExcluded ==
    /\ \A c \in Channels :
          \A i \in 1..Len(chan[c].out) : ~OtherSubtype(RawOf(chan[c].out[i]))
    /\ Aggregated =>
          LET Allowed(e) == ~OtherSubtype(RawOf(e))
          IN  Len(msgs) = SumOfWeights(Survivors, Allowed)

\* C4, witness: a reply with a channel_join message and a thread_broadcast
\* message, of which only the second is returned.
C4_Witness ==
    \E c \in Channels :
        /\ chan[c].st = "fulfilled"
        /\ \E i \in 1..Len(chan[c].raw) : chan[c].raw[i].subtype = "channel_join"
        /\ Len(chan[c].raw) = 2
        /\ Len(chan[c].out) = 1
        /\ RawOf(chan[c].out[1]).subtype = "thread_broadcast"

-----------------------------------------------------------------------------
(* Properties of the normaliser (checked on SpecClean).                    *)

\* The text s holds the piece p.
Holds(s, p) == \E i \in 1..Len(s) : MatchesAt(s, p, i)

\* Nothing in s that a removal or a decoding of file `variant` could match:
\* no "<", no "&" and, in route.ts, no ":".
NothingLeftToClean(s) ==
    /\ ~Holds(s, <<"<">>)
    /\ ~Holds(s, <<"&">>)
    /\ variant = "route" => ~Holds(s, <<":">>)

-----------------------------------------------------------------------------
(* Properties of the tables.                                               *)

\* The mood_label of the parsed completion.
OracleLabel ==
    IF "mood_label" \in DOMAIN oracle.content.value
    THEN oracle.content.value.mood_label ELSE Undefined

\* C6: the playlist of a 200 response is the own table entry of the oracle's
\* mood_label when that is one of the five labels (with a non-empty name and
\* an https URL, "Office Party Bangers" for Vibes), and the Neutral entry for
\* every other label.
C6_PlaylistLookup ==
    response.status = 200 =>
        IF OracleLabel \in MoodLabels
        THEN /\ response.body.playlist = PlaylistTable(variant)[OracleLabel]
             /\ response.body.playlist.name # ""
             /\ response.body.playlist.url.scheme = "https"
             /\ OracleLabel = "Vibes" => response.body.playlist.name = "Office Party Bangers"
        ELSE response.body.playlist = PlaylistTable(variant)["Neutral"]

\* The values of a table.
Values(table) == {table[k] : k \in DOMAIN table}

\* C7: every finished translation is a non-empty, defined string: a value of
\* the directory's map, a value of the static table, or the code itself.
C7_TranslationTotal ==
    \A i \in 1..Len(calls) :
        calls[i].st = "done" =>
            /\ calls[i].result \notin {"", Undefined, Null}
            /\ calls[i].result \notin InheritedMembers
            /\ calls[i].result \in Values(MergedCache(variant, TeamDirectory))
                                    \cup Values(getBasicEmojiMap(variant))
                                    \cup {calls[i].code}

-----------------------------------------------------------------------------
(* Properties of the failure paths.                                        *)

\* The reply of the oracle carries an error object with a message.
OracleErrorWithMessage ==
    oracle.kind = "error" /\ "message" \in DOMAIN oracle.error

\* C8, as stated: an error object with a message m is answered with status
\* 500 and the body {error: "OpenAI API error: " + m}, whatever m is.
C8_OracleErrorSurfaced ==
    OracleErrorWithMessage =>
        response = [status |-> 500,
                    body |-> [error |-> "OpenAI API error: " \o oracle.error.message]]

\* C8, amended: an error object with a non-empty message m is answered with
\* status 500 and the body {error: "OpenAI API error: " + m} and nothing else
\* ("OpenAI API error: rate limited" for "rate limited"); with an empty or
\* missing message the JSON text of the error object takes the place of m.
C8_OracleErrorSurfacedNonEmpty ==
    oracle.kind = "error" =>
        /\ response.status = 500
        /\ DOMAIN response.body = {"error"}
        /\ IF OracleErrorWithMessage /\ oracle.error.message # ""
           THEN response.body.error = "OpenAI API error: " \o oracle.error.message
           ELSE response.body.error = "OpenAI API error: " \o JsonStringify(oracle.error)
        /\ oracle.error = RateLimited => response.body.error = "OpenAI API error: rate limited"

\* C8, witness: the oracle answered {error: {message: "rate limited"}}.
C8_Witness ==
    /\ oracle.kind = "error"
    /\ oracle.error = [message |-> "rate limited"]
    /\ response = [status |-> 500, body |-> [error |-> "OpenAI API error: rate limited"]]

\* The channel c answered ok = false.
Refused(c) == chan[c].st = "rejected" /\ chan[c].reason # Undefined

Rejected(c) == chan[c].st = "rejected"

\* C9, as stated: whenever a channel answers ok = false with reason r, the
\* response is a 500 whose error names that channel and r, whatever the other
\* channels answered.
C9_EveryRefusalNamed ==
    \A c \in Channels :
        Refused(c) =>
            /\ response.status = 500
            /\ response.body.error = "Slack error for channel " \o c \o ": " \o chan[c].reason

\* C9, amended: when a channel call fails the response is a 500 with no
\* partial aggregation (nothing is weighted, the oracle is not called), and
\* its error is the message of one failed channel call, the first to fail:
\* when the only failed call is an ok = false reply with reason r of channel
\* c, the error is "Slack error for channel c: r".
C9_FirstFailureNamed ==
    (\E c \in Channels : Rejected(c)) =>
        /\ joined = "rejected"
        /\ response.status = 500
        /\ DOMAIN response.body = {"error"}
        /\ msgs = <<>> /\ oracle = NoReply /\ calls = <<>>
        /\ \E c \in Channels : Rejected(c) /\ response.body.error = chan[c].err
        /\ \A c \in Channels :
              (Refused(c) /\ \A d \in Channels \ {c} : ~Rejected(d)) =>
                  response.body.error
                      = "Slack error for channel " \o c \o ": " \o chan[c].reason

\* C9, witness: channel B returned messages, channel A answered ok = false
\* with invalid_auth, and the response names channel A and the reason.
C9_Witness ==
    /\ chan["CB"].st = "fulfilled"
    /\ Len(chan["CB"].out) > 0
    /\ Refused("CA")
    /\ response = [status |-> 500,
                   body |-> [error |-> "Slack error for channel CA: invalid_auth"]]

\* C10, as stated: a request in which anything failed ends with a 500
\* response and one executed catch clause, that of GET; it never ends with 200.
C10_EveryFailureOne500 ==
    (failures # {} /\ pc = "done") => (response.status = 500 /\ catches = 1)

\* The failures GET answers for: all but those of the emoji directory.
FatalFailures == failures \ {"emoji"}

\* C10, amended: a missing channel list, a channel fetch error, a transport
\* failure of a history or completion call, an oracle error, an empty content
\* and an unparsable content each end the request with one 500 response
\* {error: string} from GET's catch clause, reaching it uncaught, except that
\* route.ts catches the failure of the parse step in analyzeWithOpenAI first
\* and throws its own Error; none of them yields 200 and every request is
\* answered.  A failure of the emoji directory fetch is recovered in
\* fetchSlackEmojis and the request is answered 200.
C10_FatalFailuresOne500 ==
    /\ pc = "done" <=> response # NoResponse
    /\ pc = "done" => response.status \in {200, 500}
    /\ FatalFailures # {} =>
          /\ response.status = 500
          /\ DOMAIN response.body = {"error"}
          /\ catches = IF variant = "route" /\ "parse" \in failures THEN 2 ELSE 1
    /\ (FatalFailures = {} /\ pc = "done") => response.status = 200

\* C10, witness: route.ts answered an unparsable completion with one 500
\* response after its two catch clauses ran.
C10_Witness ==
    /\ variant = "route"
    /\ failures = {"parse"}
    /\ catches = 2
    /\ response.status = 500
    /\ DOMAIN response.body = {"error"}

-----------------------------------------------------------------------------
(* Further properties of the normaliser (checked on SpecClean).            *)

\* C11: every emoji code :name: of the text handed to cleanSlackText is still
\* in the cleaned text, character for character.
C11_EmojiCodesRetained ==
    cleanOut # Pending =>
        \A i \in 1..Len(cleanIn) :
            EmojiMatchLen(cleanIn, i) > 0 =>
                Holds(cleanOut, SubSeq(cleanIn, i, i + EmojiMatchLen(cleanIn, i) - 1))

-----------------------------------------------------------------------------
(* Properties of the adapter.                                              *)

\* C12: every 200 response carries a mood_score and a mood_label, and the
\* mood_label is one of the five labels; a completion without them, or with
\* another label, is answered 500.
C12_MoodValidated ==
    response.status = 200 =>
        /\ "mood_score" \in DOMAIN response.body
        /\ "mood_label" \in DOMAIN response.body
        /\ response.body.mood_label \in MoodLabels

\* The message is the parse-failure error with the first n characters of text.
ReportsExcerpt(message, text, n) ==
    message = "Failed to parse OpenAI response as JSON: " \o Str(SubSeq(text, 1, n)) \o "..."

\* C13: a content that is not valid JSON is answered with the parse-failure
\* error, whose message holds an excerpt of at most the first 100 characters
\* of the content and not the whole content; a content that is valid JSON is
\* never answered with that error, whatever fails later.
C13_ParseFailureExcerpt ==
    oracle.kind = "content" =>
        IF oracle.content.json = "malformed"
        THEN /\ response.status = 500
             /\ \E n \in 0..100 :
                   /\ n < Len(oracle.content.text)
                   /\ ReportsExcerpt(response.body.error, oracle.content.text, n)
        ELSE response.status = 500 =>
                \A n \in 0..Len(oracle.content.text) :
                    ~ReportsExcerpt(response.body.error, oracle.content.text, n)

-----------------------------------------------------------------------------
(* Properties of the emoji cache (checked on SpecServer).                  *)

\* The adapter starts its calls of convertSlackEmojiToUnicode in this step.
CallsStart == calls = <<>> /\ calls' # <<>>

\* The call i receives the reply of emoji.list in this step.
DirectoryAnswered(i) ==
    /\ i \in 1..Len(calls) /\ i \in 1..Len(calls')
    /\ calls[i].st = "fetching"
    /\ calls'[i].st = "done"

\* The keys a directory gives the map: the codes of its string-valued entries.
DirectoryKeys(entries) ==
    {Code(entries[k].name) : k \in {k \in 1..Len(entries) : entries[k].kind # "nonstring"}}

\* C14: a call made while the cache is non-null and less than one hour old is
\* answered from the cached map without a directory fetch and leaves the
\* cache alone; a call made when there is no cache or the cache is one hour
\* old or older issues a directory fetch; a successful fetch replaces the
\* map by the static table overlaid with the new directory, with no key that
\* came only from the previous directory, and sets the timestamp to the time
\* of the replacement.
C14_CacheLifecycle ==
    [][ /\ (CallsStart /\ ~emojiCache.null /\ clock - emojiCacheTime < Hours(1)) =>
              /\ \A i \in 1..Len(calls') :
                    /\ calls'[i].st = "done"
                    /\ calls'[i].reply.kind = "none"
                    /\ calls'[i].result =
                          IF calls'[i].code \in DOMAIN emojiCache.map
                          THEN emojiCache.map[calls'[i].code] ELSE calls'[i].code
              /\ UNCHANGED cacheVars
        /\ (CallsStart /\ (emojiCache.null \/ clock - emojiCacheTime >= Hours(1))) =>
              \A i \in 1..Len(calls') :
                  calls'[i].st = "fetching" /\ calls'[i].result = Undefined
        /\ \A i \in 1..Len(calls) :
              (DirectoryAnswered(i) /\ calls'[i].reply.kind = "ok") =>
                  /\ ~emojiCache'.null
                  /\ emojiCacheTime' = clock
                  /\ DOMAIN emojiCache'.map
                        = DOMAIN getBasicEmojiMap(variant)
                              \cup DirectoryKeys(calls'[i].reply.emoji)
                  /\ \A k \in DOMAIN getBasicEmojiMap(variant)
                                 \ DirectoryKeys(calls'[i].reply.emoji) :
                        emojiCache'.map[k] = getBasicEmojiMap(variant)[k]
                  /\ calls'[i].result =
                        IF calls'[i].code \in DOMAIN emojiCache'.map
                        THEN emojiCache'.map[calls'[i].code] ELSE calls'[i].code
      ]_vars

\* C14, witness: a call that found the cache of the first directory expired
\* has replaced it by the later directory's, without the custom emoji only
\* the first one had, and a second call of the request is still in flight.
C14_Witness ==
    /\ Len(calls) = 2
    /\ calls[1].found = "stale"
    /\ calls[1].st = "done"
    /\ calls[1].reply = [kind |-> "ok", emoji |-> LaterDirectory]
    /\ calls[2].st = "fetching"
    /\ emojiCacheTime = clock
    /\ ":parrot:" \in DOMAIN emojiCache.map
    /\ ":shipit:" \notin DOMAIN emojiCache.map

-----------------------------------------------------------------------------
(* Further properties of the aggregator.                                   *)

\* The surviving message behind each entry of the weighted sequence: every
\* survivor as many times as its tier weight, in the survivors' order.
RECURSIVE Producers(_)
Producers(q) ==
    IF q = <<>> THEN <<>>
    ELSE [i \in 1..TierWeight(Head(q)) |-> Head(q)] \o Producers(Tail(q))

\* C15: the weighted sequence is ordered newest first across the channels:
\* of two entries the earlier one comes from a message whose timestamp is
\* greater than or equal to that of the later one's message, whichever
\* channels the messages came from and in whatever order the channels answered.
C15_NewestFirst ==
    Aggregated =>
        LET from == Producers(Survivors)
        IN  /\ Len(msgs) = Len(from)
            /\ \A i \in 1..Len(msgs) : msgs[i] = from[i].text
            /\ \A i, j \in 1..Len(msgs) :
                  i < j => from[i].timestamp >= from[j].timestamp

\* C15, witness: the second channel's message is newer than the first
\* channel's and its text comes first.
C15_Witness ==
    /\ Aggregated
    /\ Len(chan["CA"].out) = 1
    /\ Len(chan["CB"].out) = 1
    /\ chan["CB"].out[1].timestamp > chan["CA"].out[1].timestamp
    /\ chan["CB"].out[1].text # chan["CA"].out[1].text
    /\ msgs[1] = chan["CB"].out[1].text
    /\ msgs[Len(msgs)] = chan["CA"].out[1].text

-----------------------------------------------------------------------------
(* Properties of the order of the calls.                                   *)

\* The request to the completion API has been sent.
OracleCalled == pc \in {"analyzing", "translating"} \/ oracle # NoReply

\* C16: the completion oracle is called only after every channel fetch of
\* the request was fulfilled: not while one is pending, and not at all in a
\* request in which one failed.
C16_OracleAfterAllFetches ==
    /\ OracleCalled => \A c \in Channels : chan[c].st = "fulfilled"
    /\ (\E c \in Channels : chan[c].st \in {"pending", "rejected"}) =>
          (pc \notin {"analyzing", "translating"} /\ oracle = NoReply /\ calls = <<>>)

\* C16, witness: both channels answered with messages and the oracle has
\* been called with their texts.
C16_Witness ==
    /\ pc = "analyzing"
    /\ \A c \in Channels : chan[c].st = "fulfilled" /\ Len(chan[c].out) = 1
    /\ Len(msgs) >= 2

-----------------------------------------------------------------------------
(* Properties of the filter chain.                                         *)

\* The elements of a list.
Range(q) == {q[i] : i \in 1..Len(q)}

Settles(c) == chan[c].st = "pending" /\ chan'[c].st # "pending"

\* C18: the first failure wins.  The step in which a channel call fails while
\* the aggregation is pending answers 500 with that call's error, whether or
\* not sibling calls are still in flight; a sibling that settles afterwards,
\* fulfilled or rejected, changes neither the response nor anything else the
\* request has produced.
C18_FirstFailureWins ==
    [][ \A c \in Channels :
          /\ (Settles(c) /\ joined = "pending" /\ chan'[c].st = "rejected") =>
                /\ joined' = "rejected"
                /\ response' = [status |-> 500, body |-> [error |-> chan'[c].err]]
                /\ pc' = "done"
          /\ (Settles(c) /\ joined = "rejected") =>
                /\ response' = response
                /\ response.status = 500
                /\ UNCHANGED <<pc, joined, msgs, oracle, calls, catches>>
      ]_vars

\* C18, witness: the request has answered 500 with the first channel's error
\* while the second channel's fetch is still in flight.
C18_Witness ==
    /\ chan["CA"].st = "rejected"
    /\ chan["CB"].st = "pending"
    /\ pc = "done"
    /\ response = [status |-> 500, body |-> [error |-> chan["CA"].err]]

-----------------------------------------------------------------------------
(* Requests sent per endpoint.                                             *)

\* A channel call or the completion call has failed in this request.
CallFailed ==
    \/ \E c \in Channels : chan[c].st = "rejected"
    \/ oracle # NoReply /\ oracle.kind \in {"throw", "error"}

\* C19: nothing is retried.  Once the channel calls have started, every
\* configured channel's conversations.history has been requested exactly
\* once, whatever the replies were; the completion API has been requested
\* at most once, and exactly once when it has replied; and before the channel
\* calls start nothing has been requested.
C19_NoRetries ==
    /\ \A c \in Channels :
           sent.history[c] = (IF pc # "idle" /\ env.channels THEN 1 ELSE 0)
    /\ sent.completion <= 1
    /\ sent.completion = (IF joined = "fulfilled" THEN 1 ELSE 0)
    /\ oracle # NoReply => sent.completion = 1

\* Both channel calls have failed, the second after GET had answered: each
\* conversations.history was requested once and the completion API never.
C19_Witness ==
    /\ pc = "done"
    /\ CallFailed
    /\ \A c \in Channels : chan[c].st = "rejected" /\ sent.history[c] = 1
    /\ sent.completion = 0

-----------------------------------------------------------------------------
(* What the adapter passes on of the completion.                           *)

\* The properties of the completion that describe the mood.
MoodFields == {"mood_score", "mood_label", "summary", "positive_signals", "negative_signals"}

\* The map the call i looked its code up in: the cache it found fresh, the
\* map built from the directory's reply, or the static table.
MapOf(i) ==
    IF calls[i].found = "fresh" THEN emojiCache.map
    ELSE IF calls[i].reply.kind = "ok" THEN MergedCache(variant, calls[i].reply.emoji)
    ELSE getBasicEmojiMap(variant)

\* C20: in every 200 response the five mood properties are those of the
\* object parsed from the completion: present with the same value, a
\* mood_score outside 0..100 included, or absent when the object lacks them;
\* and top_emojis has as many entries as the completion's list, the entry i
\* being the translation of the completion's entry i.
C20_OnlyTopEmojisChanged ==
    response # NoResponse /\ response.status = 200 =>
        LET parsed == oracle.content.value
            body == response.body
        IN  /\ \A k \in MoodFields :
                   IF k \in DOMAIN parsed
                   THEN k \in DOMAIN body /\ body[k] = parsed[k]
                   ELSE k \notin DOMAIN body
            /\ Len(body.top_emojis) = Len(parsed.top_emojis)
            /\ \A i \in 1..Len(parsed.top_emojis) :
                   /\ calls[i].code = parsed.top_emojis[i]
                   /\ body.top_emojis[i] = Translate(MapOf(i), parsed.top_emojis[i])

\* A 200 response to a completion with mood_score 150 and two emoji codes,
\* the first translated by the directory's alias and the second by the
\* static table.
C20_Witness ==
    /\ response # NoResponse /\ response.status = 200
    /\ oracle.content.value = Analysis("Vibes", 150, <<":flame:", ":tada:">>)
    /\ response.body.mood_score = 150
    /\ response.body.top_emojis = <<"U+1F525", "U+1F38A">>

-----------------------------------------------------------------------------
(* Properties of the emoji fallback.                                       *)

\* The call i has returned after emoji.list answered ok = false or the fetch
\* threw.
FetchFailed(i) == calls[i].st = "done" /\ calls[i].reply.kind \in {"notok", "throw"}

\* The static table's entry for the code, or the code when it has none.
ThroughStaticTable(emojiCode) ==
    IF emojiCode \in DOMAIN getBasicEmojiMap(variant)
    THEN getBasicEmojiMap(variant)[emojiCode]
    ELSE emojiCode

\* C21: a call whose directory fetch failed returns the static table's entry
\* for its code, or the code itself when the table has none, and the request
\* ends with a 200 response; and a call whose code is neither in the map it
\* looked up (the cached or fetched directory over the static table) nor in
\* the static table returns the code unchanged.
C21_FallbackToStaticTable ==
    /\ \A i \in 1..Len(calls) :
           /\ FetchFailed(i) => calls[i].result = ThroughStaticTable(calls[i].code)
           /\ (calls[i].st = "done"
                 /\ calls[i].code \notin DOMAIN MapOf(i)
                                          \cup DOMAIN getBasicEmojiMap(variant))
                 => calls[i].result = calls[i].code
    /\ (AllDone(calls) /\ \E i \in 1..Len(calls) : FetchFailed(i))
           => response.status = 200

\* C22: one request sends at most one request to emoji.list, however many
\* entries top_emojis has.
C22_OneDirectoryCall == sent.directory <= 1

-----------------------------------------------------------------------------
(* The dashboard: the component Home of part_000 with its fetchMood, the   *)
(* effect that calls it on mount and the refresh button.  The state        *)
(* updates of one continuation of fetchMood are applied together.          *)

\* The scores of the mood payloads /api/mood may answer with.
Scores == {0, 25, 30, 31, 50, 79, 80, 100}

\* The translated top_emojis of the payloads: none, or one glyph.
Glyphs == {<<>>, <<"U+1F525">>}

\* A 200 body of GET with the score n and the emojis e.
MoodPayload(n, e) == MoodResponse("part", Analysis("Good", n, e), <<>>, StartOfRun).body

\* What `await fetch("/api/mood")` and `await res.json()` give: the JSON of
\* a 200 response, the JSON of GET's catch clause, or an exception (no
\* connection, a body that is no JSON).
ApiReplies ==
    {[kind |-> "json", body |-> MoodPayload(n, e), message |-> ""] : n \in Scores, e \in Glyphs}
    \cup {[kind |-> "json", body |-> ErrorResponse(m).body, message |-> ""] :
            m \in {"fetch failed", "Slack API error: invalid_auth"}}
    \cup {[kind |-> "throw", body |-> <<>>, message |-> m] :
            m \in {"Failed to fetch", "Unexpected token < in JSON at position 0"}}

\* if (json.error).
HasError(json) == "error" \in DOMAIN json /\ json.error \notin {"", Null, Undefined}

\* What Home renders: the spinner, the error panel, nothing, or the mood view
\* with the refresh button.
Home(l, e, d) ==
    IF l THEN "spinner"
    ELSE IF e \notin {Null, ""} THEN "error"
    ELSE IF d.null THEN "nothing"
    ELSE "dashboard"

\* A refresh button in every view.
RefreshOfferedEverywhere(view, refreshing) == ~refreshing

\* A refresh button that is never disabled.
RefreshNeverDisabled(view, refreshing) == view = "dashboard"

\* The refresh button can be clicked: it is rendered in the mood view only,
\* with disabled={isRefreshing}.
RefreshOffered(view, refreshing) == view = "dashboard" /\ ~refreshing

\* prevScore is truthy: there was data and its mood_score is not 0.
HasPrevScore(closed) == ~closed.null /\ closed.value.mood_score # 0

\* Whether fetchMood calls triggerConfetti for the payload.
Confetti(json) == json.mood_score >= 80

\* Whether fetchMood calls triggerEmojiRain in its first test: json.mood_score
\* <= 30 && (!prevScore || prevScore !== json.mood_score).
LowRain(closed, json) ==
    /\ json.mood_score <= 30
    /\ (~HasPrevScore(closed) \/ closed.value.mood_score # json.mood_score)

\* And in its second: prevScore && prevScore !== json.mood_score &&
\* json.mood_score > 30 && json.mood_score < 80.
ChangeRain(closed, json) ==
    /\ HasPrevScore(closed)
    /\ closed.value.mood_score # json.mood_score
    /\ json.mood_score > 30
    /\ json.mood_score < 80

\* fetchMood up to its first await: setIsRefreshing(true) and the fetch, in
\* the closure of the render that created the function.
FetchMoodCalled ==
    /\ isRefreshing' = TRUE
    /\ inFlight' = Append(inFlight, data)
    /\ UNCHANGED <<data, loading, error, confetti, rain>>

\* useEffect(() => { fetchMood(); }, []).
Mount ==
    /\ ~mounted
    /\ mounted' = TRUE
    /\ FetchMoodCalled
    /\ UNCHANGED <<fixedVars, cleanVars, reqVars, cacheVars>>

\* A click on the refresh button.
Refresh ==
    /\ mounted
    /\ RefreshOffered(Home(loading, error, data), isRefreshing)
    /\ FetchMoodCalled
    /\ UNCHANGED <<mounted, fixedVars, cleanVars, reqVars, cacheVars>>

\* The sequence without its k-th element.
Remove(q, k) == [i \in 1..(Len(q) - 1) |-> IF i < k THEN q[i] ELSE q[i + 1]]

\* The rest of the fetchMood call k once /api/mood has answered with r: the
\* try block, the catch clause and the finally clause.
FetchMoodResumes(k, r) ==
    /\ k \in 1..Len(inFlight)
    /\ inFlight' = Remove(inFlight, k)
    /\ CASE r.kind = "throw" ->
              /\ error' = r.message
              /\ confetti' = 0 /\ rain' = 0
              /\ UNCHANGED data
         [] r.kind = "json" /\ HasError(r.body) ->
              /\ error' = r.body.error
              /\ confetti' = 0 /\ rain' = 0
              /\ UNCHANGED data
         [] OTHER ->
              /\ data' = DataOf(r.body)
              /\ confetti' = (IF Confetti(r.body) THEN 1 ELSE 0)
              /\ rain' = (IF LowRain(inFlight[k], r.body) THEN 1 ELSE 0)
                           + (IF ChangeRain(inFlight[k], r.body) THEN 1 ELSE 0)
              /\ UNCHANGED error
    /\ loading' = FALSE
    /\ isRefreshing' = FALSE
    /\ UNCHANGED <<mounted, fixedVars, cleanVars, reqVars, cacheVars>>

ApiAnswers == \E k \in 1..Len(inFlight) : \E r \in ApiReplies : FetchMoodResumes(k, r)

InitHome ==
    /\ variant = "part"
    /\ CleanIdle
    /\ world = [slack |-> {}, oracle |-> {}, caches |-> {}, directories |-> {}]
    /\ env = [channels |-> TRUE]
    /\ Loaded
    /\ HomeIdle

NextHome ==
    \/ Mount
    \/ Refresh
    \/ ApiAnswers

SpecHome == InitHome /\ [][NextHome]_vars

-----------------------------------------------------------------------------
(* Properties of the dashboard (checked on SpecHome).                      *)

\* The state `error` holds a message.
ErrorSet == error \notin {Null, ""}

\* C23: once the state `error` holds a message it keeps that message: from
\* then on Home renders the error panel (fetchMood's finally clause has
\* cleared `loading` in the step that set the error), no call of fetchMood
\* starts and none is left in flight to set a mood payload.
C23_ErrorIsFinal ==
    [][ /\ ErrorSet => error' = error /\ data' = data /\ inFlight' = inFlight
        /\ ErrorSet' => Home(loading', error', data') = "error" /\ inFlight' = <<>>
      ]_vars

\* An error payload arrived on a refresh, after a mood payload was on display.
C23_Witness ==
    /\ error = "Slack API error: invalid_auth"
    /\ ~data.null
    /\ Home(loading, error, data) = "error"

\* A call of fetchMood runs to its end in this step.
FetchMoodCompletes == Len(inFlight') < Len(inFlight)

\* C24: every call of fetchMood that completes, with a mood payload, an
\* error payload or an exception, leaves loading and isRefreshing false;
\* while a fetch of /api/mood is pending isRefreshing is true; and at most
\* one fetch is pending at any time.
C24_OneFetchInFlight ==
    /\ [](Len(inFlight) <= 1 /\ (inFlight # <<>> => isRefreshing))
    /\ [][FetchMoodCompletes => ~loading' /\ ~isRefreshing']_vars

\* A refresh is pending while a mood payload is on display.
C24_Witness ==
    /\ Len(inFlight) = 1
    /\ isRefreshing
    /\ Home(loading, error, data) = "dashboard"

\* C25: when fetchMood has stored a mood payload, confetti was triggered if
\* and only if the new mood_score is at least 80; emoji rain was triggered at
\* most once and never together with confetti; on a refresh whose new
\* mood_score equals the one on display no emoji rain was triggered; and on
\* the first load emoji rain was triggered only when the score is at most 30.
C25_Effects ==
    [][ (FetchMoodCompletes /\ ~ErrorSet') =>
            LET closed == inFlight[1]
                score == data'.value.mood_score
            IN  /\ confetti' = (IF score >= 80 THEN 1 ELSE 0)
                /\ rain' <= 1
                /\ ~(rain' > 0 /\ confetti' > 0)
                /\ (~closed.null /\ closed.value.mood_score = score) => rain' = 0
                /\ (closed.null /\ rain' > 0) => score <= 30
      ]_vars

=============================================================================
